---- MODULE Spec2Model ----
(***************************************************************************)
(* Model of scripts/https_server.py: a script that changes into a serve    *)
(* directory, creates an http.server.HTTPServer with                       *)
(* SimpleHTTPRequestHandler on 0.0.0.0:8443, loads cert.pem/key.pem from   *)
(* the script's directory, wraps the listening socket in TLS, prints two   *)
(* status lines and serves forever.                                        *)
(*                                                                         *)
(* A path is a sequence of components; an absolute path starts with the    *)
(* component "/".  <<"/", "srv", "www">> is /srv/www and <<"..", "www">>   *)
(* is ../www.                                                              *)
(***************************************************************************)
EXTENDS Integers, Sequences, FiniteSets, TLC

\* ------------------------------------------------------------------ bounds
NumClients == 2
MaxReqLen == 3

\* client 0 is no client
Clients == 1..NumClients

\* ------------------------------------------------- os.path (posixpath)
isabs(p) == p # <<>> /\ p[1] = "/"

\* os.path.join(a, b) for two operands
join(a, b) == IF isabs(b) THEN b ELSE a \o b

RECURSIVE normcomps(_, _, _)
\* the loop of posixpath.normpath over the components
normcomps(comps, initial_slashes, new_comps) ==
    IF comps = <<>> THEN new_comps
    ELSE LET comp == Head(comps)
             rest == Tail(comps)
         IN  IF comp \in {"", "."}
             THEN normcomps(rest, initial_slashes, new_comps)
             ELSE IF \/ comp # ".."
                     \/ (~initial_slashes /\ new_comps = <<>>)
                     \/ (new_comps # <<>> /\ new_comps[Len(new_comps)] = "..")
             THEN normcomps(rest, initial_slashes, Append(new_comps, comp))
             ELSE IF new_comps # <<>>
             THEN normcomps(rest, initial_slashes,
                            SubSeq(new_comps, 1, Len(new_comps) - 1))
             ELSE normcomps(rest, initial_slashes, new_comps)

normpath(p) ==
    IF isabs(p)
    THEN <<"/">> \o normcomps(Tail(p), TRUE, <<>>)
    ELSE LET r == normcomps(p, FALSE, <<>>)
         IN  IF r = <<>> THEN <<".">> ELSE r

\* os.path.abspath(p) in a process whose working directory is wd
abspath(p, wd) == normpath(IF isabs(p) THEN p ELSE join(wd, p))

\* os.path.dirname(p) of a path with at least one component after the root
dirname(p) == IF Len(p) <= 1 THEN p ELSE SubSeq(p, 1, Len(p) - 1)

IsPrefix(d, p) == Len(d) <= Len(p) /\ SubSeq(p, 1, Len(d)) = d

\* ------------------------------------------------------------ file system
Root == <<"/">>
RepoDir == <<"/", "srv">>
InstallDir == <<"/", "srv", "scripts">>
ScriptFile == InstallDir \o <<"https_server.py">>
WwwDir == <<"/", "srv", "www">>
SubDir == <<"/", "srv", "www", "sub">>

Dirs == {Root, RepoDir, InstallDir, WwwDir, SubDir}

\* regular files other than the credential pair, with their contents
PlainFiles == {RepoDir \o <<"hello.txt">>,
               WwwDir \o <<"hello.txt">>,
               SubDir \o <<"hello.txt">>,
               SubDir \o <<"index.html">>,
               ScriptFile}

Content(f) == <<"bytes of">> \o f

\* ------------------------------------------------------------------ state
VARIABLES
    cwd0,       \* working directory of the caller
    argv0,      \* the script path as typed on the command line
    args,       \* sys.argv[1:]
    absMain,    \* interpreter stores __main__.__file__ as an absolute path
    credState,  \* cert.pem/key.pem next to the script: valid, missing, invalid
    portFree,   \* nobody else listens on 0.0.0.0:8443
    pc,         \* line of the script about to run, "serving" or "exited"
    cwd,        \* working directory of the process
    serve_dir, script_dir, cert_file, key_file,
    httpd,      \* the server's socket: [state, tls, addr]
    context,    \* the SSLContext: "none", "empty" or "loaded"
    console,    \* lines written to stdout and stderr, in order
    failure,    \* the call whose exception ended the process, or "none"
    binds,      \* number of bind() calls made
    backlog,    \* connections completed by the kernel, not yet accepted
    conn,       \* the connection the server is working on
    peer,       \* each client's connection: none, queued, accepted, outcome
    sent        \* number of HTTP responses written to each client

envVars == <<cwd0, argv0, args, absMain, credState, portFree>>
procVars == <<pc, cwd, serve_dir, script_dir, cert_file, key_file,
              httpd, context, console, failure, binds>>
netVars == <<backlog, conn, peer, sent>>
vars == <<envVars, procVars, netVars>>

CallerDirs == {RepoDir, InstallDir}
ScriptArgs == {ScriptFile,
               <<"scripts", "https_server.py">>,
               <<".", "https_server.py">>}
DirArgs == {<<"www">>, <<"www", "sub">>, WwwDir, <<"missing">>,
            <<"hello.txt">>}

NoPath == <<>>
server_address == [host |-> "0.0.0.0", port |-> 8443]
NoSocket == [state |-> "none", tls |-> FALSE, addr |-> [host |-> "", port |-> 0]]
NoConn == [c |-> 0, stage |-> "none", tls |-> FALSE, stalled |-> FALSE,
           req |-> [slash |-> FALSE, parts |-> <<>>, trailing |-> FALSE],
           status |-> 0, opened |-> NoPath, body |-> <<>>]

Out(text, arg) == [stream |-> "stdout", line |-> text, arg |-> arg]
Err(text) == [stream |-> "stderr", line |-> text, arg |-> <<>>]

Init ==
    /\ cwd0 \in CallerDirs
    /\ argv0 \in ScriptArgs
    /\ abspath(argv0, cwd0) = ScriptFile
    /\ args \in {<<>>} \cup {<<d>> : d \in DirArgs}
    /\ absMain \in BOOLEAN
    /\ credState \in {"valid", "missing", "invalid"}
    /\ portFree \in BOOLEAN
    /\ pc = "line8"
    /\ cwd = cwd0
    /\ serve_dir = NoPath
    /\ script_dir = NoPath
    /\ cert_file = NoPath
    /\ key_file = NoPath
    /\ httpd = NoSocket
    /\ context = "none"
    /\ console = <<>>
    /\ failure = "none"
    /\ binds = 0
    /\ backlog = <<>>
    /\ conn = NoConn
    /\ peer = [c \in Clients |-> "none"]
    /\ sent = [c \in Clients |-> 0]

\* An uncaught exception at top level: traceback on stderr, the process
\* exits, which leaves its socket as sock (closed if it had one) and resets
\* the connections still queued on it.
Raise(call, sock) ==
    /\ pc' = "exited"
    /\ failure' = call
    /\ console' = Append(console, Err("Traceback"))
    /\ httpd' = sock
    /\ backlog' = <<>>
    /\ peer' = [c \in Clients |->
                  IF peer[c] = "queued" THEN "reset" ELSE peer[c]]

\* ---------------------------------------------------------------- startup
\* lines 8-9
ResolveServeDir ==
    /\ pc = "line8"
    /\ serve_dir' = abspath(IF Len(args) > 0 THEN args[1] ELSE <<".">>, cwd)
    /\ pc' = "line12"
    /\ UNCHANGED <<envVars, netVars, cwd, script_dir, cert_file, key_file,
                   httpd, context, console, failure, binds>>

\* Chdir that checks the directory but stays in the caller's directory
ChdirNotEntered ==
    /\ pc = "line12"
    /\ IF serve_dir \in Dirs
       THEN /\ pc' = "line15"
            /\ UNCHANGED <<console, failure, httpd, backlog, peer>>
       ELSE Raise("os.chdir", httpd)
    /\ UNCHANGED <<envVars, conn, sent, cwd, serve_dir, script_dir,
                   cert_file, key_file, context, binds>>

\* Chdir with the error of os.chdir swallowed
ChdirIgnoringError ==
    /\ pc = "line12"
    /\ cwd' = IF serve_dir \in Dirs THEN serve_dir ELSE cwd
    /\ pc' = "line15"
    /\ UNCHANGED <<envVars, netVars, serve_dir, script_dir, cert_file,
                   key_file, httpd, context, console, failure, binds>>

\* line 12
Chdir ==
    /\ pc = "line12"
    /\ IF serve_dir \in Dirs
       THEN /\ cwd' = serve_dir
            /\ pc' = "line15"
            /\ UNCHANGED <<console, failure, httpd, backlog, peer>>
       ELSE /\ Raise("os.chdir", httpd)
            /\ UNCHANGED cwd
    /\ UNCHANGED <<envVars, conn, sent, serve_dir, script_dir, cert_file,
                   key_file, context, binds>>

\* CreateServer that binds the next port up when 8443 is taken
CreateServerWithFallback ==
    /\ pc = "line15"
    /\ binds' = IF portFree THEN binds + 1 ELSE binds + 2
    /\ httpd' = [state |-> "listening", tls |-> FALSE,
                 addr |-> IF portFree THEN server_address
                          ELSE [server_address EXCEPT !.port = @ + 1]]
    /\ pc' = "line18"
    /\ UNCHANGED <<envVars, netVars, cwd, serve_dir, script_dir, cert_file,
                   key_file, context, console, failure>>

\* line 15: HTTPServer.__init__ runs server_bind() and server_activate(),
\* and server_close() before re-raising when either fails
CreateServer ==
    /\ pc = "line15"
    /\ binds' = binds + 1
    /\ IF portFree
       THEN /\ httpd' = [state |-> "listening", tls |-> FALSE,
                         addr |-> server_address]
            /\ pc' = "line18"
            /\ UNCHANGED <<console, failure, backlog, peer>>
       ELSE Raise("HTTPServer", [state |-> "closed", tls |-> FALSE,
                                 addr |-> server_address])
    /\ UNCHANGED <<envVars, conn, sent, cwd, serve_dir, script_dir,
                   cert_file, key_file, context>>

\* the value of __file__ in the __main__ module
MainFile == IF absMain THEN abspath(argv0, cwd0) ELSE argv0

\* line 18, evaluated in working directory wd
ScriptDirOf(file, wd) == dirname(abspath(file, wd))

\* lines 18-20
ResolveCertPaths ==
    /\ pc = "line18"
    /\ script_dir' = ScriptDirOf(MainFile, cwd)
    /\ cert_file' = join(script_dir', <<"cert.pem">>)
    /\ key_file' = join(script_dir', <<"key.pem">>)
    /\ pc' = "line22"
    /\ UNCHANGED <<envVars, netVars, cwd, serve_dir, httpd, context,
                   console, failure, binds>>

CredFiles ==
    IF credState = "missing" THEN {}
    ELSE {InstallDir \o <<"cert.pem">>, InstallDir \o <<"key.pem">>}

Files == PlainFiles \cup CredFiles

\* context.load_cert_chain(cert, key) succeeds
CertChainLoads(cert, key) ==
    /\ cert = InstallDir \o <<"cert.pem">>
    /\ key = InstallDir \o <<"key.pem">>
    /\ credState = "valid"

\* LoadCertChain that goes on with an empty context when loading fails
LoadCertChainUnchecked ==
    /\ pc = "line22"
    /\ context' = IF CertChainLoads(cert_file, key_file) THEN "loaded"
                  ELSE "empty"
    /\ pc' = "line24"
    /\ UNCHANGED <<envVars, netVars, cwd, serve_dir, script_dir, cert_file,
                   key_file, httpd, console, failure, binds>>

\* lines 22-23
LoadCertChain ==
    /\ pc = "line22"
    /\ IF CertChainLoads(cert_file, key_file)
       THEN /\ context' = "loaded"
            /\ pc' = "line24"
            /\ UNCHANGED <<console, failure, httpd, backlog, peer>>
       ELSE /\ context' = "empty"
            /\ Raise("load_cert_chain", [httpd EXCEPT !.state = "closed"])
    /\ UNCHANGED <<envVars, conn, sent, cwd, serve_dir, script_dir,
                   cert_file, key_file, binds>>

\* WrapSocket that leaves httpd.socket as the plain listening socket
WrapSocketSkipped ==
    /\ pc = "line24"
    /\ pc' = "line26"
    /\ UNCHANGED <<envVars, netVars, cwd, serve_dir, script_dir, cert_file,
                   key_file, httpd, context, console, failure, binds>>

\* line 24
WrapSocket ==
    /\ pc = "line24"
    /\ httpd' = [httpd EXCEPT !.tls = TRUE]
    /\ pc' = "line26"
    /\ UNCHANGED <<envVars, netVars, cwd, serve_dir, script_dir, cert_file,
                   key_file, context, console, failure, binds>>

\* ServeLine that shows the argument as typed
ServeLineAsTyped ==
    Out("Serving HTTPS from:", IF Len(args) > 0 THEN args[1] ELSE <<".">>)

ServeLine == Out("Serving HTTPS from:", serve_dir)
UrlLine ==
    Out("Server running at",
        <<"https://", server_address.host, ":",
          ToString(server_address.port), "/">>)

\* line 26
PrintServeDir ==
    /\ pc = "line26"
    /\ console' = Append(console, ServeLine)
    /\ pc' = "line27"
    /\ UNCHANGED <<envVars, netVars, cwd, serve_dir, script_dir, cert_file,
                   key_file, httpd, context, failure, binds>>

\* line 27
PrintUrl ==
    /\ pc = "line27"
    /\ console' = Append(console, UrlLine)
    /\ pc' = "line28"
    /\ UNCHANGED <<envVars, netVars, cwd, serve_dir, script_dir, cert_file,
                   key_file, httpd, context, failure, binds>>

\* line 28: serve_forever() enters its select loop
ServeForever ==
    /\ pc = "line28"
    /\ pc' = "serving"
    /\ UNCHANGED <<envVars, netVars, cwd, serve_dir, script_dir, cert_file,
                   key_file, httpd, context, console, failure, binds>>

\* ---------------------------------------------------------------- clients
\* A client completes a TCP connection to the listening port; the kernel
\* queues it until the server calls accept().  Clients are numbered in the
\* order in which they connect.
Connect(c) ==
    /\ httpd.state = "listening"
    /\ peer[c] = "none"
    /\ \A d \in Clients : d < c => peer[d] # "none"
    /\ peer' = [peer EXCEPT ![c] = "queued"]
    /\ backlog' = Append(backlog, c)
    /\ UNCHANGED <<envVars, procVars, conn, sent>>

\* The client of the connection in service stops sending for good while the
\* server waits for its handshake or its request.
Stall ==
    /\ conn.stage \in {"handshake", "request"}
    /\ ~conn.stalled
    /\ conn' = [conn EXCEPT !.stalled = TRUE]
    /\ UNCHANGED <<envVars, procVars, backlog, peer, sent>>

\* ------------------------------------------------- SimpleHTTPRequestHandler
ReqNames == {"..", ".", "hello.txt", "sub"}

RECURSIVE SeqsUpTo(_, _)
SeqsUpTo(S, n) ==
    IF n = 0 THEN {<<>>}
    ELSE LET shorter == SeqsUpTo(S, n - 1)
         IN  shorter \cup {Append(s, x) : s \in shorter, x \in S}

\* request targets: optional leading slash, components, optional trailing
\* slash; the target "/" is a leading slash that is also the trailing one
Requests ==
    {r \in [slash : BOOLEAN, parts : SeqsUpTo(ReqNames, MaxReqLen),
            trailing : BOOLEAN] :
        r.parts = <<>> => (r.slash /\ r.trailing)}

ReqPath(r) == (IF r.slash THEN <<"/">> ELSE <<>>) \o r.parts

IsWord(w) == w \notin {"", "/"}
IsSimpleName(w) == w \notin {".", ".."}

\* translate_path that joins every word, "." and ".." included
translate_path_unfiltered(r, directory) ==
    [path |-> directory \o SelectSeq(normpath(ReqPath(r)), IsWord),
     trailing |-> r.trailing]

\* SimpleHTTPRequestHandler.translate_path
translate_path(r, directory) ==
    LET words == SelectSeq(normpath(ReqPath(r)), IsWord)
    IN  [path |-> directory \o SelectSeq(words, IsSimpleName),
         trailing |-> r.trailing]

Response(status, opened, body) ==
    [status |-> status, opened |-> opened, body |-> body]

\* send_head once translate_path has given path (with its trailing slash
\* apart): redirect, index file, listing, file content or 404
send_head_at(r, trailing, path) ==
    IF path \in Dirs
    THEN IF ~r.trailing THEN Response(301, NoPath, <<>>)
         ELSE IF path \o <<"index.html">> \in Files
         THEN Response(200, path \o <<"index.html">>,
                       Content(path \o <<"index.html">>))
         ELSE IF path \o <<"index.htm">> \in Files
         THEN Response(200, path \o <<"index.htm">>,
                       Content(path \o <<"index.htm">>))
         ELSE Response(200, path, <<"listing of">> \o path)
    ELSE IF trailing THEN Response(404, NoPath, <<>>)
    ELSE IF path \in Files THEN Response(200, path, Content(path))
    ELSE Response(404, NoPath, <<>>)

\* SimpleHTTPRequestHandler.send_head followed by copyfile (do_GET); the
\* file system follows the ".." components a path still has
send_head(r, directory) ==
    LET t == translate_path(r, directory)
    IN  CHOOSE resp \in {send_head_at(r, t.trailing, path) :
                            path \in {normpath(t.path)}} : TRUE

\* stderr lines of log_message for a response with this status
LogLines(status) ==
    IF status >= 400 THEN <<Err("log_error"), Err("log_request")>>
    ELSE <<Err("log_request")>>

\* ------------------------------------------------------------- serve loop
\* _handle_request_noblock -> get_request -> socket.accept().  A wrapped
\* listening socket starts the TLS handshake inside accept(); a plain one
\* hands back a plain connection ready for the request.
Accept ==
    /\ pc = "serving"
    /\ conn = NoConn
    /\ backlog # <<>>
    /\ conn' = [NoConn EXCEPT !.c = Head(backlog),
                              !.stage = IF httpd.tls THEN "handshake"
                                        ELSE "request"]
    /\ backlog' = Tail(backlog)
    /\ peer' = [peer EXCEPT ![Head(backlog)] = "accepted"]
    /\ UNCHANGED <<envVars, procVars, sent>>

\* the blocking handshake inside SSLSocket.accept() succeeds and accept()
\* returns the connection
HandshakeDone ==
    /\ pc = "serving"
    /\ conn.stage = "handshake"
    /\ ~conn.stalled
    /\ conn' = [conn EXCEPT !.stage = "request", !.tls = TRUE]
    /\ UNCHANGED <<envVars, procVars, backlog, peer, sent>>

\* HandshakeFailed whose error leaves serve_forever and ends the process
HandshakeFailedFatal ==
    /\ pc = "serving"
    /\ conn.stage = "handshake"
    /\ ~conn.stalled
    /\ peer' = [c \in Clients |->
                  IF c = conn.c THEN "handshake_failed"
                  ELSE IF peer[c] = "queued" THEN "reset" ELSE peer[c]]
    /\ conn' = NoConn
    /\ pc' = "exited"
    /\ failure' = "serve_forever"
    /\ console' = Append(console, Err("Traceback"))
    /\ httpd' = [httpd EXCEPT !.state = "closed"]
    /\ backlog' = <<>>
    /\ UNCHANGED <<envVars, sent, cwd, serve_dir, script_dir, cert_file,
                   key_file, context, binds>>

\* the handshake fails: accept() raises ssl.SSLError, an OSError, which
\* _handle_request_noblock swallows
HandshakeFailed ==
    /\ pc = "serving"
    /\ conn.stage = "handshake"
    /\ ~conn.stalled
    /\ peer' = [peer EXCEPT ![conn.c] = "handshake_failed"]
    /\ conn' = NoConn
    /\ UNCHANGED <<envVars, procVars, backlog, sent>>

\* handle_one_request reads a request line that parse_request accepts
ParseRequest ==
    /\ pc = "serving"
    /\ conn.stage = "request"
    /\ ~conn.stalled
    /\ \E r \in Requests : conn' = [conn EXCEPT !.stage = "parsed", !.req = r]
    /\ UNCHANGED <<envVars, procVars, backlog, peer, sent>>

\* do_GET: send_head writes status and headers, copyfile the body
DoGet ==
    /\ pc = "serving"
    /\ conn.stage = "parsed"
    /\ \E resp \in {send_head(conn.req, cwd)} :
           /\ conn' = [conn EXCEPT !.stage = "answered",
                                   !.status = resp.status,
                                   !.opened = resp.opened,
                                   !.body = resp.body]
           /\ console' = console \o LogLines(resp.status)
    /\ sent' = [sent EXCEPT ![conn.c] = @ + 1]
    /\ UNCHANGED <<envVars, backlog, peer, pc, cwd, serve_dir,
                   script_dir, cert_file, key_file, httpd, context,
                   failure, binds>>

\* handle_one_request with a request line parse_request rejects:
\* send_error(400)
HandleMalformed ==
    /\ pc = "serving"
    /\ conn.stage = "request"
    /\ ~conn.stalled
    /\ conn' = [conn EXCEPT !.stage = "bad_request", !.status = 400]
    /\ console' = console \o LogLines(400)
    /\ sent' = [sent EXCEPT ![conn.c] = @ + 1]
    /\ UNCHANGED <<envVars, backlog, peer, pc, cwd, serve_dir,
                   script_dir, cert_file, key_file, httpd, context,
                   failure, binds>>

\* handle_one_request reads an empty request line: the client has gone
HandleEof ==
    /\ pc = "serving"
    /\ conn.stage = "request"
    /\ ~conn.stalled
    /\ conn' = [conn EXCEPT !.stage = "eof"]
    /\ UNCHANGED <<envVars, procVars, backlog, peer, sent>>

\* the client goes away while the response is written: the write raises,
\* process_request's caller runs handle_error (traceback on stderr)
HandleBrokenPipe ==
    /\ pc = "serving"
    /\ conn.stage = "parsed"
    /\ \E resp \in {send_head(conn.req, cwd)} :
           /\ conn' = [conn EXCEPT !.stage = "broken_pipe",
                                   !.req = NoConn.req,
                                   !.status = resp.status]
           /\ console' = console \o LogLines(resp.status)
                                 \o <<Err("Traceback")>>
    /\ UNCHANGED <<envVars, backlog, peer, sent, pc, cwd, serve_dir,
                   script_dir, cert_file, key_file, httpd, context,
                   failure, binds>>

\* ShutdownRequest of a server that handles one request and returns
ShutdownRequestAndStop ==
    /\ pc = "serving"
    /\ conn.stage \in {"answered", "bad_request", "eof", "broken_pipe"}
    /\ peer' = [peer EXCEPT ![conn.c] = conn.stage]
    /\ conn' = NoConn
    /\ pc' = "exited"
    /\ UNCHANGED <<envVars, backlog, sent, cwd, serve_dir, script_dir,
                   cert_file, key_file, httpd, context, console, failure,
                   binds>>

\* shutdown_request: the connection is closed and the loop goes on
ShutdownRequest ==
    /\ pc = "serving"
    /\ conn.stage \in {"answered", "bad_request", "eof", "broken_pipe"}
    /\ peer' = [peer EXCEPT ![conn.c] = conn.stage]
    /\ conn' = NoConn
    /\ UNCHANGED <<envVars, procVars, backlog, sent>>

Server ==
    \/ ResolveServeDir \/ Chdir \/ CreateServer \/ ResolveCertPaths
    \/ LoadCertChain \/ WrapSocket \/ PrintServeDir \/ PrintUrl
    \/ ServeForever \/ Accept \/ HandshakeDone \/ HandshakeFailed
    \/ ParseRequest \/ DoGet \/ HandleMalformed \/ HandleEof
    \/ HandleBrokenPipe
    \/ ShutdownRequest

Next ==
    \/ ResolveServeDir
    \/ Chdir
    \/ CreateServer
    \/ ResolveCertPaths
    \/ LoadCertChain
    \/ WrapSocket
    \/ PrintServeDir
    \/ PrintUrl
    \/ ServeForever
    \/ \E c \in Clients : Connect(c)
    \/ Stall
    \/ Accept
    \/ HandshakeDone
    \/ HandshakeFailed
    \/ ParseRequest
    \/ DoGet
    \/ HandleMalformed
    \/ HandleEof
    \/ HandleBrokenPipe
    \/ ShutdownRequest

Spec == Init /\ [][Next]_vars

\* The script started from the repository root by its absolute path
FairInit ==
    /\ Init
    /\ cwd0 = RepoDir
    /\ argv0 = ScriptFile
    /\ absMain
    /\ args \in {<< <<"www">> >>, << <<"missing">> >>}

\* The interpreter runs the script and the select loop whenever they can
\* take a step, and a client that has not stalled delivers what it sends.
FairSpec == FairInit /\ [][Next]_vars /\ WF_vars(Server)

\* ------------------------------------------------------------- properties
IsStdout(e) == e.stream = "stdout"
Stdout == SelectSeq(console, IsStdout)

\* sys.argv[1] or '.', resolved in the caller's working directory
RequestedDir == abspath(IF Len(args) > 0 THEN args[1] ELSE <<".">>, cwd0)

\* no connection has been taken from the listening socket
NothingAccepted ==
    /\ conn = NoConn
    /\ \A c \in Clients : peer[c] \in {"none", "queued", "reset"}

PastLoad == {"line24", "line26", "line27", "line28", "serving"}

C6_BadDirFailsFirst ==
    (RequestedDir \notin Dirs /\ pc \notin {"line8", "line12"}) =>
        /\ pc = "exited"
        /\ failure = "os.chdir"
        /\ binds = 0
        /\ httpd = NoSocket
        /\ context = "none"
        /\ cert_file = NoPath
        /\ Stdout = <<>>
        /\ NothingAccepted
        /\ backlog = <<>>

\* the process has ended at os.chdir for the argument "missing"
C6_Witness ==
    /\ args = << <<"missing">> >>
    /\ pc = "exited"
    /\ failure = "os.chdir"

\* C7: when port 8443 is taken, bind is attempted once, on 0.0.0.0:8443,
\* and the process ends there: no credential loaded, no status line, no
\* connection accepted, no socket listening.
C7_PortInUseFails ==
    /\ binds <= 1
    /\ binds = 1 => httpd.addr = [host |-> "0.0.0.0", port |-> 8443]
    /\ (~portFree /\ binds > 0) =>
         /\ pc = "exited"
         /\ failure = "HTTPServer"
         /\ httpd.state = "closed"
         /\ context = "none"
         /\ cert_file = NoPath
         /\ Stdout = <<>>
         /\ NothingAccepted
         /\ backlog = <<>>

\* the process has ended in the HTTPServer constructor on a taken port
C7_Witness ==
    /\ ~portFree
    /\ binds = 1
    /\ pc = "exited"
    /\ failure = "HTTPServer"

\* C2: the certificate and key paths are cert.pem and key.pem in the
\* directory that contains the script, whatever the serve directory and the
\* caller's working directory are.
C2_CredentialsNextToScript ==
    pc \notin {"line8", "line12", "line15", "line18"} /\ failure # "os.chdir"
                                                     /\ failure # "HTTPServer"
        => /\ script_dir = InstallDir
           /\ cert_file = InstallDir \o <<"cert.pem">>
           /\ key_file = InstallDir \o <<"key.pem">>

HttpStages == {"request", "parsed", "answered", "bad_request", "eof", "broken_pipe"}

\* C3: a request is read and a response written only on a connection whose
\* TLS handshake has completed, a connection whose handshake failed got no
\* response, and a connection is accepted only once the listening socket
\* is wrapped.
C3_HandshakeBeforeHttp ==
    /\ conn.stage \in HttpStages => conn.tls
    /\ \A c \in Clients :
         /\ sent[c] > 0 =>
              \/ (conn.c = c /\ conn.tls)
              \/ peer[c] \in {"answered", "bad_request"}
         /\ peer[c] = "handshake_failed" => sent[c] = 0
    /\ ~NothingAccepted => (httpd.tls /\ context = "loaded")

\* one connection dropped at its handshake with nothing sent, another one
\* answered over TLS
C3_Witness ==
    /\ conn.stage = "answered"
    /\ conn.tls
    /\ sent[conn.c] = 1
    /\ \E c \in Clients : peer[c] = "handshake_failed" /\ sent[c] = 0

\* the file a request would name if its components were followed from the
\* serve root without any check
Unchecked(r) == normpath(cwd \o r.parts)

Outside(f) == ~IsPrefix(serve_dir, f)

\* C4: whatever the request path, the path the handler opens is the serve
\* root or below it, and the body is never the content or the listing of
\* something outside the serve root.
C4_NoTraversal ==
    conn.stage = "answered" =>
        /\ conn.opened # NoPath => IsPrefix(serve_dir, conn.opened)
        /\ \A i \in 1..Len(conn.opened) : conn.opened[i] # ".."
        /\ \A f \in Files : Outside(f) => conn.body # Content(f)
        /\ \A d \in Dirs : Outside(d) => conn.body # <<"listing of">> \o d
        /\ Outside(Unchecked(conn.req)) =>
             \/ conn.status \in {301, 404}
             \/ IsPrefix(serve_dir, conn.opened)

\* a request whose ".." components lead to an existing file outside the
\* serve root has been answered
C4_Witness ==
    /\ conn.stage = "answered"
    /\ \E i \in 1..Len(conn.req.parts) : conn.req.parts[i] = ".."
    /\ Unchecked(conn.req) \in Files
    /\ Outside(Unchecked(conn.req))

\* the path of f relative to directory d
RelPath(f, d) == SubSeq(f, Len(d) + 1, Len(f))

\* C5: a GET for the path of a file under the serve directory, relative to
\* it, is answered 200 with that file's content; the serve directory is the
\* absolute path computed at startup and the working directory while
\* serving.
C5_FilesServedVerbatim ==
    /\ pc = "serving" => (cwd = RequestedDir /\ serve_dir = RequestedDir)
    /\ conn.stage = "answered" =>
         \A f \in Files :
            (IsPrefix(RequestedDir, f) /\ ~conn.req.trailing
               /\ conn.req.parts = RelPath(f, RequestedDir)) =>
                 /\ conn.status = 200
                 /\ conn.opened = f
                 /\ conn.body = Content(f)

\* /hello.txt was answered from /srv/www while the caller's directory /srv
\* holds a hello.txt of its own
C5_Witness ==
    /\ cwd0 = RepoDir
    /\ serve_dir = WwwDir
    /\ conn.stage = "answered"
    /\ conn.req = [slash |-> TRUE, parts |-> <<"hello.txt">>,
                   trailing |-> FALSE]
    /\ conn.body = Content(WwwDir \o <<"hello.txt">>)

ErrorOutcomes == {"handshake_failed", "bad_request", "eof", "broken_pipe"}

\* C8: after a connection has failed (handshake failure, malformed request,
\* client gone before or during the response) the process is still in the
\* serve loop on its wrapped listening socket, and takes the next queued
\* connection when it is idle.
C8_ErrorsStayLocal ==
    (\E c \in Clients : peer[c] \in ErrorOutcomes) =>
        /\ pc = "serving"
        /\ failure = "none"
        /\ httpd = [state |-> "listening", tls |-> TRUE,
                    addr |-> server_address]
        /\ (conn = NoConn /\ backlog # <<>>) => ENABLED Accept

\* a connection has been answered after an earlier one failed
C8_Witness ==
    \E c, d \in Clients :
        /\ c < d
        /\ peer[c] \in ErrorOutcomes
        /\ peer[d] = "answered"

Finished == ErrorOutcomes \cup {"answered"}

\* C9 as stated: a connection queued at the serving socket is eventually
\* accepted and finished (unless it is the one that stalls), whatever the
\* other clients do.
C9_EventuallyServiced ==
    \A c \in Clients :
        (pc = "serving" /\ peer[c] = "queued")
            ~> (peer[c] \in Finished \/ (conn.c = c /\ conn.stalled))

\* C9 amended: a connection queued at the serving socket is eventually
\* accepted and finished unless the accept loop is blocked on a client,
\* this one or one accepted before it, that has stalled in its handshake
\* or request.
C9_ServicedUnlessStalled ==
    \A c \in Clients :
        (pc = "serving" /\ peer[c] = "queued")
            ~> (peer[c] \in Finished \/ conn.stalled)

\* the second connection is being answered after the first client went
\* away during its response
C9_Witness ==
    /\ peer[1] = "broken_pipe"
    /\ conn.c = 2
    /\ conn.stage = "answered"

\* C10 as stated: the console shows the two status lines and nothing else,
\* also after requests have been handled.
C10_TwoLinesOnly ==
    pc = "serving" =>
        console = <<Out("Serving HTTPS from:", RequestedDir), UrlLine>>

\* C10 amended: standard output holds the resolved serve directory and then
\* the URL line, each once; they are printed after chdir, bind, credential
\* load and wrap, and before the first accept; requests add lines to
\* standard error only.
C10_StdoutTwoLines ==
    LET first == Out("Serving HTTPS from:", RequestedDir)
        second == Out("Server running at",
                      <<"https://", "0.0.0.0", ":", "8443", "/">>)
    IN  /\ Stdout \in {<<>>, <<first>>, <<first, second>>}
        /\ Stdout # <<>> =>
             /\ cwd = RequestedDir
             /\ binds = 1
             /\ context = "loaded"
             /\ httpd = [state |-> "listening", tls |-> TRUE,
                         addr |-> server_address]
        /\ pc \in {"line28", "serving"} => Stdout = <<first, second>>
        /\ ~NothingAccepted => Stdout = <<first, second>>

\* a request has been logged on standard error after the two status lines
C10_Witness ==
    /\ pc = "serving"
    /\ Len(Stdout) = 2
    /\ Len(console) > 2
    /\ \E c \in Clients : peer[c] = "answered"

====
